---- MODULE Spec2Model ----
(***************************************************************************)
(* Model of Concatenate-mp4-videos.py: the MP4 atom parser and serializer, *)
(* the Chunk model, MP4.update_in_place_using_chunks ("apply"),            *)
(* MP4.copy_with_padding and the append driver.                            *)
(*                                                                         *)
(* Files are sequences of bytes (naturals below 256).  File offsets are    *)
(* 0-based as in the source; the byte at offset p of b is b[p + 1].        *)
(***************************************************************************)
EXTENDS Integers, Sequences, FiniteSets, TLC

(***************************************************************************)
(* Bounds of the model.                                                    *)
(***************************************************************************)
\* Longest chunk list handed to update_in_place_using_chunks directly.
MaxChunks == 3

(***************************************************************************)
(* Byte primitives: struct.pack('!I'), struct.pack('!H'), struct.unpack.   *)
(***************************************************************************)
write32(val) ==
  << (val \div 16777216) % 256, (val \div 65536) % 256,
     (val \div 256) % 256, val % 256 >>

write16(val) == << (val \div 256) % 256, val % 256 >>

\* file.read(n) at offset p: short at the end of the file, as Python's read
read(b, p, n) ==
  IF p >= Len(b) THEN << >>
  ELSE SubSeq(b, p + 1, IF p + n > Len(b) THEN Len(b) ELSE p + n)

\* struct.unpack('!I', s)[0]; -1 stands for struct.error on a short string
read32(s) ==
  IF Len(s) # 4 THEN -1
  ELSE s[1] * 16777216 + s[2] * 65536 + s[3] * 256 + s[4]

read16(s) == IF Len(s) # 2 THEN -1 ELSE s[1] * 256 + s[2]

Zeros(n) == [i \in 1..n |-> 0]

\* the 4-character type codes, as their ASCII bytes
TypeCode ==
  [ ftyp |-> <<102, 116, 121, 112>>, moov |-> <<109, 111, 111, 118>>,
    free |-> <<102, 114, 101, 101>>, mdat |-> <<109, 100, 97, 116>>,
    mvhd |-> <<109, 118, 104, 100>>, trak |-> <<116, 114, 97, 107>>,
    tkhd |-> <<116, 107, 104, 100>>, edts |-> <<101, 100, 116, 115>>,
    elst |-> <<101, 108, 115, 116>>, mdia |-> <<109, 100, 105, 97>>,
    mdhd |-> <<109, 100, 104, 100>>, hdlr |-> <<104, 100, 108, 114>>,
    minf |-> <<109, 105, 110, 102>>, stbl |-> <<115, 116, 98, 108>>,
    stsd |-> <<115, 116, 115, 100>>, stts |-> <<115, 116, 116, 115>>,
    stss |-> <<115, 116, 115, 115>>, stsc |-> <<115, 116, 115, 99>>,
    stsz |-> <<115, 116, 115, 122>>, stco |-> <<115, 116, 99, 111>>,
    meta |-> <<109, 101, 116, 97>>, dinf |-> <<100, 105, 110, 102>>,
    udta |-> <<117, 100, 116, 97>>, vmhd |-> <<118, 109, 104, 100>>,
    ilst |-> <<105, 108, 115, 116>> ]

\* the type named by 4 bytes; "????" for a code the program does not know
TypeOf(code) ==
  IF \E t \in DOMAIN TypeCode : TypeCode[t] = code
  THEN CHOOSE t \in DOMAIN TypeCode : TypeCode[t] = code
  ELSE "????"

\* concatenation of F(s[1]), F(s[2]), ...: the source's write loops
RECURSIVE ConcatMap(_, _, _)
ConcatMap(F(_), s, i) ==
  IF i > Len(s) THEN << >> ELSE F(s[i]) \o ConcatMap(F, s, i + 1)

RECURSIVE Sum(_, _)
Sum(s, i) == IF i > Len(s) THEN 0 ELSE s[i] + Sum(s, i + 1)

(***************************************************************************)
(* AtomWriter and the unparse_* methods.                                   *)
(***************************************************************************)
\* AtomWriter.__init__ writes type, version, flags; atom() prepends the size
AtomWriter(atom, body) ==
  LET data == TypeCode[atom.atomtype] \o atom.version \o atom.flags \o body
  IN  write32(4 + Len(data)) \o data

unparse_mvhd(atom) ==
  AtomWriter(atom, write32(atom.creation_time) \o write32(atom.modification_time)
                   \o write32(atom.time_scale) \o write32(atom.duration)
                   \o atom.unparsed)

unparse_tkhd(atom) ==
  AtomWriter(atom, write32(atom.creation_time) \o write32(atom.modification_time)
                   \o write32(atom.track_id) \o atom.reserved1
                   \o write32(atom.duration) \o atom.unparsed
                   \o write32(atom.track_width) \o write32(atom.track_height))

unparse_elst(atom) ==
  AtomWriter(atom, write32(Len(atom.edits))
     \o ConcatMap(LAMBDA e : write32(e.duration) \o write32(e.start_time)
                             \o write32(e.rate), atom.edits, 1))

unparse_mdhd(atom) ==
  AtomWriter(atom, write32(atom.creation_time) \o write32(atom.modification_time)
                   \o write32(atom.time_scale) \o write32(atom.duration)
                   \o write16(atom.language) \o write16(atom.quality))

unparse_stco(atom) ==
  AtomWriter(atom, write32(Len(atom.chunk_offsets))
                   \o ConcatMap(write32, atom.chunk_offsets, 1))

unparse_stsz(atom) ==
  AtomWriter(atom, write32(0) \o write32(Len(atom.sample_sizes))
                   \o ConcatMap(write32, atom.sample_sizes, 1))

unparse_stsc(atom) ==
  AtomWriter(atom, write32(Len(atom.sample_to_chunk_map))
     \o ConcatMap(LAMBDA e : write32(e.first_chunk) \o write32(e.samples_per_chunk)
                             \o write32(e.sample_description_id),
                  atom.sample_to_chunk_map, 1))

unparse_stss(atom) ==
  AtomWriter(atom, write32(Len(atom.key_frame_samples))
                   \o ConcatMap(write32, atom.key_frame_samples, 1))

unparse_stts(atom) ==
  AtomWriter(atom, write32(Len(atom.time_to_sample_map))
     \o ConcatMap(LAMBDA e : write32(e.sample_count) \o write32(e.sample_duration),
                  atom.time_to_sample_map, 1))

unparse_stsd(atom) ==
  AtomWriter(atom, write32(Len(atom.sample_descriptions))
     \o ConcatMap(LAMBDA d : write32(4 + 6 + 6 + 2 + Len(d.unparsed)) \o d.format
                             \o d.reserved \o write16(d.reference_index)
                             \o d.unparsed,
                  atom.sample_descriptions, 1))

\* the atom types for which dir(self) holds an unparse_ method
UnparseTypes ==
  {"mvhd", "tkhd", "elst", "mdhd", "stco", "stsz", "stsc", "stss", "stts", "stsd"}

unparse(atom) ==
  CASE atom.atomtype = "mvhd" -> unparse_mvhd(atom)
    [] atom.atomtype = "tkhd" -> unparse_tkhd(atom)
    [] atom.atomtype = "elst" -> unparse_elst(atom)
    [] atom.atomtype = "mdhd" -> unparse_mdhd(atom)
    [] atom.atomtype = "stco" -> unparse_stco(atom)
    [] atom.atomtype = "stsz" -> unparse_stsz(atom)
    [] atom.atomtype = "stsc" -> unparse_stsc(atom)
    [] atom.atomtype = "stss" -> unparse_stss(atom)
    [] atom.atomtype = "stts" -> unparse_stts(atom)
    [] atom.atomtype = "stsd" -> unparse_stsd(atom)

(***************************************************************************)
(* MP4.write_atom(atom), reading opaque leaves from the bytes fp of the    *)
(* object's own file.  A container is an OrderedDict: `order` lists its    *)
(* 4-character keys in insertion order, `kids` maps them to the children.  *)
(***************************************************************************)
RECURSIVE write_atom(_, _)
write_atom(fp, atom) ==
  IF atom.atomtype \in UnparseTypes THEN unparse(atom)
  ELSE IF "_container_header" \in DOMAIN atom THEN
    LET ret == TypeCode[atom.atomtype] \o atom._container_header
               \o ConcatMap(LAMBDA k : write_atom(fp, atom.kids[k]), atom.order, 1)
    IN  write32(Len(ret) + 4) \o ret
  ELSE read(fp, atom._position, atom.atomsize)

write_free_atom(space) == write32(space + 8) \o TypeCode["free"] \o Zeros(space)

(***************************************************************************)
(* AtomReader and the parse_* methods.  A parse_* operator returns the     *)
(* keys it sets, the file position it leaves (`tell`) and whether it ran   *)
(* without an exception (struct.error on a short read, a failed assert).   *)
(***************************************************************************)
\* AtomReader.__init__: the size and type at the current file position
AtomReader(inp, position) ==
  [ position |-> position,
    atomsize |-> read32(read(inp, position, 4)),
    atomtype |-> TypeOf(read(inp, position + 4, 4)) ]

\* the big-endian u32 at file offset p (AtomReader.read32)
rd32(inp, p) == read32(read(inp, p, 4))

\* AtomReader.read_version_and_flags
read_version_and_flags(inp, position) ==
  [ version |-> read(inp, position + 8, 1), flags |-> read(inp, position + 9, 3) ]

\* num consecutive u32 values from offset p; the reads fail past the end
ReadList(inp, p, num) == [i \in 1..num |-> rd32(inp, p + 4 * (i - 1))]

\* whether a count and the num entries of width w that follow it can be read
CountOk(inp, p, num, w) == num >= 0 /\ num <= Len(inp) /\ p + w * num <= Len(inp)

parse_mvhd(inp, position) ==
  LET f(i) == rd32(inp, position + 12 + 4 * i)
      unparsed == read(inp, position + 28, 4 + 2 + 10 + 36 + 4 * 7)
  IN  [ set  |-> read_version_and_flags(inp, position) @@
                 [ creation_time |-> f(0), modification_time |-> f(1),
                   time_scale |-> f(2), duration |-> f(3), unparsed |-> unparsed ],
        tell |-> position + 28 + Len(unparsed),
        ok   |-> \A i \in 0..3 : f(i) >= 0 ]

parse_tkhd(inp, position) ==
  LET f(i) == rd32(inp, position + 12 + 4 * i)
      reserved1 == read(inp, position + 24, 4)
      unparsed == read(inp, position + 32, 8 + 2 * 4 + 36)
      g(i) == rd32(inp, position + 84 + 4 * i)
  IN  [ set  |-> read_version_and_flags(inp, position) @@
                 [ creation_time |-> f(0), modification_time |-> f(1),
                   track_id |-> f(2), reserved1 |-> reserved1, duration |-> f(4),
                   unparsed |-> unparsed, track_width |-> g(0),
                   track_height |-> g(1) ],
        tell |-> position + 92,
        ok   |-> (\A i \in {0, 1, 2, 4} : f(i) >= 0) /\ g(0) >= 0 /\ g(1) >= 0 ]

parse_elst(inp, position) ==
  LET count == rd32(inp, position + 12)
      ok == CountOk(inp, position + 16, count, 12)
      edit(i) == [ duration   |-> rd32(inp, position + 16 + 12 * (i - 1)),
                   start_time |-> rd32(inp, position + 20 + 12 * (i - 1)),
                   rate       |-> rd32(inp, position + 24 + 12 * (i - 1)) ]
  IN  [ set  |-> read_version_and_flags(inp, position) @@
                 [ edits |-> IF ok THEN [i \in 1..count |-> edit(i)] ELSE << >> ],
        tell |-> position + 16 + 12 * count,
        ok   |-> ok ]

parse_mdhd(inp, position) ==
  LET f(i) == rd32(inp, position + 12 + 4 * i)
      language == read16(read(inp, position + 28, 2))
      quality == read16(read(inp, position + 30, 2))
  IN  [ set  |-> read_version_and_flags(inp, position) @@
                 [ creation_time |-> f(0), modification_time |-> f(1),
                   time_scale |-> f(2), duration |-> f(3),
                   language |-> language, quality |-> quality ],
        tell |-> position + 32,
        ok   |-> (\A i \in 0..3 : f(i) >= 0) /\ language >= 0 /\ quality >= 0 ]

parse_stco(inp, position) ==
  LET num == rd32(inp, position + 12)
      ok == CountOk(inp, position + 16, num, 4)
  IN  [ set  |-> read_version_and_flags(inp, position) @@
                 [ chunk_offsets |->
                     IF ok THEN ReadList(inp, position + 16, num) ELSE << >> ],
        tell |-> position + 16 + 4 * num,
        ok   |-> ok ]

parse_stsz(inp, position) ==
  LET sample_size == rd32(inp, position + 12)
      num == rd32(inp, position + 16)
      ok == sample_size = 0 /\ CountOk(inp, position + 20, num, 4)
  IN  [ set  |-> read_version_and_flags(inp, position) @@
                 [ sample_sizes |->
                     IF ok THEN ReadList(inp, position + 20, num) ELSE << >> ],
        tell |-> position + 20 + 4 * num,
        ok   |-> ok ]

parse_stsc(inp, position) ==
  LET num == rd32(inp, position + 12)
      ok == CountOk(inp, position + 16, num, 12)
      entry(i) ==
        [ first_chunk           |-> rd32(inp, position + 16 + 12 * (i - 1)),
          samples_per_chunk     |-> rd32(inp, position + 20 + 12 * (i - 1)),
          sample_description_id |-> rd32(inp, position + 24 + 12 * (i - 1)) ]
  IN  [ set  |-> read_version_and_flags(inp, position) @@
                 [ sample_to_chunk_map |->
                     IF ok THEN [i \in 1..num |-> entry(i)] ELSE << >> ],
        tell |-> position + 16 + 12 * num,
        ok   |-> ok ]

parse_stss(inp, position) ==
  LET num == rd32(inp, position + 12)
      ok == CountOk(inp, position + 16, num, 4)
  IN  [ set  |-> read_version_and_flags(inp, position) @@
                 [ key_frame_samples |->
                     IF ok THEN ReadList(inp, position + 16, num) ELSE << >> ],
        tell |-> position + 16 + 4 * num,
        ok   |-> ok ]

parse_stts(inp, position) ==
  LET num == rd32(inp, position + 12)
      ok == CountOk(inp, position + 16, num, 8)
      entry(i) == [ sample_count    |-> rd32(inp, position + 16 + 8 * (i - 1)),
                    sample_duration |-> rd32(inp, position + 20 + 8 * (i - 1)) ]
  IN  [ set  |-> read_version_and_flags(inp, position) @@
                 [ time_to_sample_map |->
                     IF ok THEN [i \in 1..num |-> entry(i)] ELSE << >> ],
        tell |-> position + 16 + 8 * num,
        ok   |-> ok ]

\* the loop of parse_stsd: the descriptions left to read, from offset p
RECURSIVE stsd_descriptions(_, _, _)
stsd_descriptions(inp, p, left) ==
  IF left = 0 THEN [ list |-> << >>, tell |-> p, ok |-> TRUE ]
  ELSE
    LET len == rd32(inp, p)
        reference_index == read16(read(inp, p + 16, 2))
        ok == len >= 4 + 6 + 6 + 2 /\ p + len <= Len(inp) /\ reference_index = 0
        description == [ format |-> read(inp, p + 4, 6),
                         reserved |-> read(inp, p + 10, 6),
                         reference_index |-> reference_index,
                         unparsed |-> read(inp, p + 18, len - 4 - 6 - 6 - 2) ]
        rest == stsd_descriptions(inp, p + len, left - 1)
    IN  IF ~ok THEN [ list |-> << >>, tell |-> p, ok |-> FALSE ]
        ELSE [ list |-> <<description>> \o rest.list, tell |-> rest.tell,
               ok |-> rest.ok ]

parse_stsd(inp, position) ==
  LET num == rd32(inp, position + 12)
      all == IF num >= 0 THEN stsd_descriptions(inp, position + 16, num)
             ELSE [ list |-> << >>, tell |-> position, ok |-> FALSE ]
  IN  [ set  |-> read_version_and_flags(inp, position) @@
                 [ sample_descriptions |-> all.list ],
        tell |-> all.tell,
        ok   |-> all.ok ]

\* the atom types for which dir(self) holds a parse_ method (parse_dref, the
\* one parser without an unparser, is left out: no modelled file has a dref)
ParseTypes ==
  {"mvhd", "tkhd", "elst", "mdhd", "stco", "stsz", "stsc", "stss", "stts", "stsd"}

ContainerTypes ==
  {"meta", "moov", "trak", "mdia", "minf", "edts", "dinf", "stbl", "udta"}

SkipTypes == {"ftyp", "hdlr", "mdat", "vmhd", "ilst", "free"}

parse_typed(atomtype, inp, position) ==
  CASE atomtype = "mvhd" -> parse_mvhd(inp, position)
    [] atomtype = "tkhd" -> parse_tkhd(inp, position)
    [] atomtype = "elst" -> parse_elst(inp, position)
    [] atomtype = "mdhd" -> parse_mdhd(inp, position)
    [] atomtype = "stco" -> parse_stco(inp, position)
    [] atomtype = "stsz" -> parse_stsz(inp, position)
    [] atomtype = "stsc" -> parse_stsc(inp, position)
    [] atomtype = "stss" -> parse_stss(inp, position)
    [] atomtype = "stts" -> parse_stts(inp, position)
    [] atomtype = "stsd" -> parse_stsd(inp, position)

EmptyDict == [ order |-> << >>, kids |-> << >> ]

(***************************************************************************)
(* MP4.parse_container: the atoms from offset to offset1, as an ordered    *)
(* dictionary.  `tell` is the offset the walk ends at and `ok` is FALSE    *)
(* when the walk raises (unknown type, a parser that fails, AtomReader.done*)
(* finding that an atom was not read to its declared end).                 *)
(***************************************************************************)
RECURSIVE parse_container(_, _, _)

\* AtomReader.parsed
parsed_of(ar) ==
  [ _position |-> ar.position, atomsize |-> ar.atomsize, atomtype |-> ar.atomtype ]

\* the branch of an atom with a parse_ method: the parser, then ar.done()
typed_atom(ar, typed) ==
  [ val |-> parsed_of(ar) @@ typed.set,
    ok  |-> typed.ok /\ typed.tell = ar.position + ar.atomsize ]

\* the branch of a container: its children, then ar.done()
container_atom(ar, container_header, inner) ==
  [ val |-> inner.dict @@ [ _container_header |-> container_header ]
            @@ parsed_of(ar),
    ok  |-> inner.ok /\ inner.tell = ar.position + ar.atomsize ]

container_from(fp, ar, container_header) ==
  container_atom(ar, container_header,
                 parse_container(fp, ar.position + 8 + Len(container_header),
                                 ar.position + ar.atomsize))

\* one atom: the if/elif chain of the loop body.  No object is made when
\* AtomReader raises struct.error at the end of the file (atomsize < 0
\* here), nor when a skipped atom has size 0: the loop then reads the same
\* atom forever.
parse_atom(fp, ar) ==
  IF ar.atomsize < 0 THEN [ val |-> parsed_of(ar), ok |-> FALSE ]
  ELSE IF ar.atomtype \in ParseTypes
    THEN typed_atom(ar, parse_typed(ar.atomtype, fp, ar.position))
  ELSE IF ar.atomtype \in ContainerTypes
    THEN container_from(fp, ar, IF ar.atomtype = "meta"
                                THEN read(fp, ar.position + 8, 4) ELSE << >>)
  ELSE IF ar.atomtype \in SkipTypes
    THEN [ val |-> parsed_of(ar), ok |-> ar.atomsize > 0 ]
  ELSE [ val |-> parsed_of(ar), ok |-> FALSE ]

\* the offsets at which the while-loop makes an AtomReader: up to offset1,
\* or up to an atom whose size does not move the file position on
RECURSIVE atom_starts(_, _, _)
starts_after(fp, offset1, ar) ==
  IF ar.atomsize <= 0 THEN << ar.position >>
  ELSE << ar.position >> \o atom_starts(fp, ar.position + ar.atomsize, offset1)

atom_starts(fp, offset, offset1) ==
  IF offset >= offset1 THEN << >>
  ELSE starts_after(fp, offset1, AtomReader(fp, offset))

\* what the loop body makes of the atom at each of these offsets (\o << >>
\* has the sequence computed once, as the loop does, not at every lookup)
atoms_at(fp, starts) ==
  [ i \in 1..Len(starts) |-> parse_atom(fp, AtomReader(fp, starts[i])) ] \o << >>

\* ret[ar.atomtype] = val for the atoms in turn.  OrderedDict: a key keeps
\* the place of its first insertion and the value of its last.
first_insertions(atoms) ==
  SelectSeq([ i \in 1..Len(atoms) |-> i ],
            LAMBDA i : \A j \in 1..(i - 1) : atoms[j].val.atomtype # atoms[i].val.atomtype)

last_insertion(atoms, k) ==
  CHOOSE i \in 1..Len(atoms) :
    /\ atoms[i].val.atomtype = k
    /\ \A j \in (i + 1)..Len(atoms) : atoms[j].val.atomtype # k

ordered(atoms, firsts) ==
  [ order |-> [ n \in 1..Len(firsts) |-> atoms[firsts[n]].val.atomtype ] \o << >>,
    kids  |-> [ k \in { atoms[i].val.atomtype : i \in 1..Len(atoms) } |->
                  atoms[last_insertion(atoms, k)].val ] @@ << >> ]

dict_of(atoms) ==
  IF atoms = << >> THEN EmptyDict ELSE ordered(atoms, first_insertions(atoms))

least(S) == CHOOSE x \in S : \A y \in S : x <= y

\* the loop ends behind the last atom, or raises at the first atom that fails
container_of(offset, atoms, failed) ==
  IF failed = { } THEN
    [ dict |-> dict_of(atoms),
      tell |-> IF atoms = << >> THEN offset
               ELSE atoms[Len(atoms)].val._position + atoms[Len(atoms)].val.atomsize,
      ok   |-> TRUE ]
  ELSE
    [ dict |-> dict_of(SubSeq(atoms, 1, least(failed) - 1)),
      tell |-> atoms[least(failed)].val._position,
      ok   |-> FALSE ]

parsed_atoms(offset, atoms) ==
  container_of(offset, atoms, { i \in 1..Len(atoms) : ~atoms[i].ok })

parse_container(fp, offset, offset1) ==
  parsed_atoms(offset, atoms_at(fp, atom_starts(fp, offset, offset1)))

(***************************************************************************)
(* The input files.  A file is described by its top-level layout, the      *)
(* payload size of its free atom, its chunks (per-sample sizes, 0-based    *)
(* local keyframe offsets, 1-based sample description id), the contents of *)
(* its stsd, whether stsc has one run per chunk ("each") or one run per    *)
(* series of like chunks ("merged"), whether it has an stss, and its pixel *)
(* dimensions.  The index atoms are consistent with one another, as in the *)
(* encoder's output the tool is written for; the time scales are powers of *)
(* two, so that the float arithmetic of the source is exact.               *)
(***************************************************************************)
Box(atomtype, payload) == write32(8 + Len(payload)) \o TypeCode[atomtype] \o payload

Typed(atomtype, fields) ==
  [ atomtype |-> atomtype, version |-> <<0>>, flags |-> <<0, 0, 0>> ] @@ fields

\* a sample description as parse_stsd reads it
Description(k) ==
  [ format |-> <<0, 0, 0, 0, 0, 0>>, reserved |-> <<0, 0, 0, 0, 0, 0>>,
    reference_index |-> 0, unparsed |-> <<k>> ]

\* one with a long codec configuration
LongDescription ==
  [ format |-> <<0, 0, 0, 0, 0, 0>>, reserved |-> <<0, 0, 0, 0, 0, 0>>,
    reference_index |-> 0, unparsed |-> [ i \in 1..600 |-> 3 ] ]

GenSampleCount(v) == Sum([i \in 1..Len(v.chunks) |-> Len(v.chunks[i].sizes)], 1)

GenFirstSample(v, i) == Sum([j \in 1..(i - 1) |-> Len(v.chunks[j].sizes)], 1)

GenChunkLength(v, i) == Sum(v.chunks[i].sizes, 1)

\* the payload of mdat: v.lead bytes no chunk owns, the chunks, v.slack bytes
\* no chunk owns
GenMdatLength(v) ==
  v.lead + Sum([i \in 1..Len(v.chunks) |-> GenChunkLength(v, i)], 1) + v.slack

GenRunStarts(v) ==
  { i \in 1..Len(v.chunks) :
      \/ v.runs = "each"
      \/ i = 1
      \/ Len(v.chunks[i].sizes) # Len(v.chunks[i - 1].sizes)
      \/ v.chunks[i].desc # v.chunks[i - 1].desc }

RECURSIVE SetToSortedSeq(_)
SetToSortedSeq(S) ==
  IF S = {} THEN << >>
  ELSE LET m == CHOOSE x \in S : \A y \in S : x <= y
       IN  <<m>> \o SetToSortedSeq(S \ {m})

\* movie duration in mvhd ticks, for n samples (a consistent header)
GenDuration(n, sample_duration, mdhd_time_scale, mvhd_time_scale) ==
  (2 * n * sample_duration * mvhd_time_scale + mdhd_time_scale)
     \div (2 * mdhd_time_scale)

GenStbl(v, first_offset) ==
  LET n == GenSampleCount(v)
      starts == SetToSortedSeq(GenRunStarts(v))
      stsd == unparse_stsd(Typed("stsd", [ sample_descriptions |-> v.descs ]))
      stts == unparse_stts(Typed("stts", [ time_to_sample_map |->
                << [ sample_count |-> n, sample_duration |-> 2 ] >> ]))
      stss == unparse_stss(Typed("stss", [ key_frame_samples |->
                ConcatMap(LAMBDA i : [ k \in 1..Len(v.chunks[i].keys) |->
                                         GenFirstSample(v, i) + v.chunks[i].keys[k] + 1 ],
                          [ i \in 1..Len(v.chunks) |-> i ], 1) ]))
      stsc == unparse_stsc(Typed("stsc", [ sample_to_chunk_map |->
                [ r \in 1..Len(starts) |->
                    [ first_chunk |-> starts[r],
                      samples_per_chunk |-> Len(v.chunks[starts[r]].sizes),
                      sample_description_id |-> v.chunks[starts[r]].desc ] ] ]))
      stsz == unparse_stsz(Typed("stsz", [ sample_sizes |->
                ConcatMap(LAMBDA c : c.sizes, v.chunks, 1) ]))
      stco == unparse_stco(Typed("stco", [ chunk_offsets |->
                [ i \in 1..Len(v.chunks) |->
                    first_offset
                    + Sum([ j \in 1..(i - 1) |-> GenChunkLength(v, j) ], 1) ] ]))
  IN  Box("stbl", stsd \o stts \o (IF v.stss THEN stss ELSE << >>)
                  \o stsc \o stsz \o stco)

GenMoov(v, first_offset) ==
  LET n == GenSampleCount(v)
      duration == GenDuration(n, 2, 4, 2)
      mvhd == unparse_mvhd(Typed("mvhd",
                [ creation_time |-> 0, modification_time |-> 0, time_scale |-> 2,
                  duration |-> duration, unparsed |-> Zeros(80) ]))
      tkhd == unparse_tkhd(Typed("tkhd",
                [ creation_time |-> 0, modification_time |-> 0, track_id |-> 1,
                  reserved1 |-> Zeros(4), duration |-> duration,
                  unparsed |-> Zeros(52),
                  track_width |-> v.width * 65536,
                  track_height |-> v.height * 65536 ]))
      elst == unparse_elst(Typed("elst", [ edits |->
                << [ duration |-> duration, start_time |-> 0, rate |-> 65536 ] >> ]))
      mdhd == unparse_mdhd(Typed("mdhd",
                [ creation_time |-> 0, modification_time |-> 0, time_scale |-> 4,
                  duration |-> 2 * n, language |-> 0, quality |-> 0 ]))
      hdlr == Box("hdlr", <<0, 0, 0, 0>>)
  IN  Box("moov", mvhd \o
        Box("trak", tkhd \o Box("edts", elst) \o
          Box("mdia", mdhd \o hdlr \o Box("minf", GenStbl(v, first_offset)))))

GenAtomSize(v, atomtype) ==
  CASE atomtype = "ftyp" -> 12
    [] atomtype = "moov" -> Len(GenMoov(v, 0))
    [] atomtype = "free" -> 8 + v.free
    [] atomtype = "mdat" -> 8 + GenMdatLength(v)

GenPosition(v, atomtype) ==
  LET at == CHOOSE i \in 1..Len(v.layout) : v.layout[i] = atomtype
  IN  Sum([ j \in 1..(at - 1) |-> GenAtomSize(v, v.layout[j]) ], 1)

GenFile(v) ==
  LET atom(atomtype) ==
        CASE atomtype = "ftyp" -> Box("ftyp", <<105, 115, 111, 109>>)
          [] atomtype = "moov" -> GenMoov(v, GenPosition(v, "mdat") + 8 + v.lead)
          [] atomtype = "free" -> write_free_atom(v.free)
          [] atomtype = "mdat" ->
               Box("mdat", [ i \in 1..GenMdatLength(v) |-> v.base + i - 1 ])
  IN  ConcatMap(atom, v.layout, 1)

(***************************************************************************)
(* The MP4 object: [filename, writable, info].  Its file pointer fp reads  *)
(* and writes the bytes of the file it was opened on.                      *)
(***************************************************************************)
\* info['moov']['trak']['mdia']['minf']['stbl']
stbl_of(info) ==
  info.kids["moov"].kids["trak"].kids["mdia"].kids["minf"].kids["stbl"]

synthesize_stss_all_keyframes(info) ==
  LET num_frames == Len(stbl_of(info).kids["stsz"].sample_sizes)
      stss == [ atomtype |-> "stss", version |-> <<0>>, flags |-> <<0, 0, 0>>,
                key_frame_samples |-> [ i \in 1..num_frames |-> i ] ]
  IN  [ info EXCEPT
          !.kids["moov"].kids["trak"].kids["mdia"].kids["minf"].kids["stbl"] =
            [ @ EXCEPT !.order = Append(@, "stss"),
                       !.kids = ("stss" :> stss) @@ @ ] ]

\* whether info['moov']['trak']['mdia']['minf']['stbl'] is looked up without a
\* KeyError
has_key(atom, k) == k \in DOMAIN atom.kids

has_stbl(info) ==
  /\ has_key(info, "moov")
  /\ has_key(info.kids["moov"], "trak")
  /\ has_key(info.kids["moov"].kids["trak"], "mdia")
  /\ has_key(info.kids["moov"].kids["trak"].kids["mdia"], "minf")
  /\ has_key(info.kids["moov"].kids["trak"].kids["mdia"].kids["minf"], "stbl")

\* MP4.__init__ once the file is parsed: ok is FALSE when the constructor raises
MP4_init(filename, writable, parse) ==
  [ ok |-> parse.ok /\ has_stbl(parse.dict),
    obj |-> [ filename |-> filename, writable |-> writable,
              info |-> IF parse.ok /\ has_stbl(parse.dict)
                          /\ "stss" \notin DOMAIN stbl_of(parse.dict).kids
                       THEN synthesize_stss_all_keyframes(parse.dict)
                       ELSE parse.dict ] ]

MP4(bytes, filename, writable) ==
  MP4_init(filename, writable, parse_container(bytes, 0, Len(bytes)))

\* MP4.dimensions
dimensions(video) ==
  << video.info.kids["moov"].kids["trak"].kids["tkhd"].track_width,
     video.info.kids["moov"].kids["trak"].kids["tkhd"].track_height >>

\* the loop of MP4.chunk_info over sample_to_chunk_map[1:]
RECURSIVE chunk_info_loop(_, _, _, _)
chunk_info_loop(map, chunkno, info, i) ==
  IF i > Len(map) THEN info
  ELSE chunk_info_loop(map, chunkno,
         IF map[i].first_chunk <= chunkno + 1
            /\ map[i].first_chunk > info.first_chunk
         THEN map[i] ELSE info,
         i + 1)

\* MP4.chunk_info(chunkno), chunkno 0-based; raises unless the first run
\* starts at chunk 1 (chunk_info_ok)
chunk_info(video, chunkno) ==
  LET map == stbl_of(video.info).kids["stsc"].sample_to_chunk_map
  IN  chunk_info_loop(map, chunkno, map[1], 2)

chunk_info_ok(video) ==
  LET map == stbl_of(video.info).kids["stsc"].sample_to_chunk_map
  IN  Len(map) >= 1 /\ map[1].first_chunk = 1

\* a slice bound as Python clips it: negative bounds count from the end
PyBound(n, a) ==
  IF a < 0 THEN (IF a + n < 0 THEN 0 ELSE a + n) ELSE (IF a > n THEN n ELSE a)

\* the Python slice s[a:b]
PySlice(s, a, b) ==
  LET lo == PyBound(Len(s), a)
      hi == PyBound(Len(s), b)
  IN  IF lo >= hi THEN << >> ELSE SubSeq(s, lo + 1, hi)

(***************************************************************************)
(* Chunk.__init__ and Chunk._compute_samples.  `video` is the name of the  *)
(* MP4 object the chunk belongs to; chunkno is 0-based.                    *)
(***************************************************************************)
\* the loop over range(0, chunkno + 1): first_sample as it ends
first_sample_of(video, chunkno) ==
  Sum([ i \in 1..chunkno |-> chunk_info(video, i - 1).samples_per_chunk ], 1)

\* the keyframes loop: the stss entries of the chunk, local and 0-based
keyframes_of(key_frame_samples, first_sample, last_sample) ==
  ConcatMap(LAMBDA s : IF first_sample <= s - 1 /\ s - 1 < last_sample
                       THEN << s - 1 - first_sample >> ELSE << >>,
            key_frame_samples, 1)

\* sample_descriptions[id - 1]; Python's index -1 is the last item
description_at(sample_descriptions, id) ==
  sample_descriptions[IF id = 0 THEN Len(sample_descriptions) ELSE id]

Chunk_fields(name, chunkno, stbl, info, first_sample, sample_sizes) ==
  [ video |-> name,
    chunkno |-> chunkno,
    offset |-> stbl.kids["stco"].chunk_offsets[chunkno + 1],
    sample_sizes |-> sample_sizes,
    first_sample |-> first_sample,
    length |-> Sum(sample_sizes, 1),
    keyframes |-> keyframes_of(stbl.kids["stss"].key_frame_samples, first_sample,
                               first_sample + info.samples_per_chunk),
    sample_description |->
      description_at(stbl.kids["stsd"].sample_descriptions,
                     info.sample_description_id) ]

Chunk_init(name, chunkno, stbl, info, first_sample) ==
  Chunk_fields(name, chunkno, stbl, info, first_sample,
               PySlice(stbl.kids["stsz"].sample_sizes, first_sample,
                       first_sample + info.samples_per_chunk))

Chunk(name, video, chunkno) ==
  Chunk_init(name, chunkno, stbl_of(video.info), chunk_info(video, chunkno),
             first_sample_of(video, chunkno))

\* whether Chunk(video, chunkno) is built without an IndexError
Chunk_ok(video, chunkno) ==
  /\ chunk_info_ok(video)
  /\ chunk_info(video, chunkno).sample_description_id
       <= Len(stbl_of(video.info).kids["stsd"].sample_descriptions)
  /\ Len(stbl_of(video.info).kids["stsd"].sample_descriptions) >= 1

\* the contiguity loop of MP4.chunks: the position after the last chunk, or
\* -1 when a chunk does not start where the one before it ended
RECURSIVE chunks_walk(_, _, _)
chunks_walk(chunks, pos, i) ==
  IF i > Len(chunks) THEN pos
  ELSE IF chunks[i].offset # pos THEN -1
  ELSE chunks_walk(chunks, pos + chunks[i].length, i + 1)

\* a chunks() that does not look where the last chunk ends
end_unchecked(video, pos) == TRUE

\* the assert that ends MP4.chunks
chunks_end_ok(video, pos) ==
  pos = video.info.kids["mdat"]._position + video.info.kids["mdat"].atomsize

chunks_checked(video, chunks, pos) ==
  IF pos >= 0 /\ chunks_end_ok(video, pos)
  THEN [ ok |-> TRUE, chunks |-> chunks ]
  ELSE [ ok |-> FALSE, chunks |-> << >> ]

\* self.info['mdat'] raises KeyError in a file without mdat
chunks_walked(video, chunks) ==
  IF ~has_key(video.info, "mdat") THEN [ ok |-> FALSE, chunks |-> << >> ]
  ELSE chunks_checked(video, chunks,
                      chunks_walk(chunks, video.info.kids["mdat"]._position + 8, 1))

\* MP4.chunks: ok is FALSE when it raises
chunks_of(name, video) ==
  IF \E i \in 1..Len(stbl_of(video.info).kids["stco"].chunk_offsets) :
        ~Chunk_ok(video, i - 1)
  THEN [ ok |-> FALSE, chunks |-> << >> ]
  ELSE chunks_walked(video,
         [ i \in 1..Len(stbl_of(video.info).kids["stco"].chunk_offsets) |->
             Chunk(name, video, i - 1) ])

(***************************************************************************)
(* File writes: fp.write(data) at offset p, and fp.truncate() at offset p. *)
(***************************************************************************)
fp_write(b, p, data) ==
  (IF p <= Len(b) THEN SubSeq(b, 1, p) ELSE b \o Zeros(p - Len(b)))
  \o data
  \o (IF p + Len(data) < Len(b) THEN SubSeq(b, p + Len(data) + 1, Len(b))
      ELSE << >>)

\* a truncate that leaves the file as long as it was
fp_kept(b, p) == b

fp_truncate(b, p) ==
  IF p <= Len(b) THEN SubSeq(b, 1, p) ELSE b \o Zeros(p - Len(b))

(***************************************************************************)
(* MP4.update_in_place_using_chunks: the rebuilt index tables.             *)
(***************************************************************************)
\* a frame count that counts chunks instead of samples
chunk_count(chunks) == Len(chunks)

\* nsamples: the total of len(chunk.sample_sizes)
nsamples_of(chunks) == Sum([ i \in 1..Len(chunks) |-> Len(chunks[i].sample_sizes) ], 1)

\* int(float(nsamples * sample_duration) / mdhd_time_scale * time_scale + 0.5)
\* (exact for the time scales of the modelled files)
mvhd_duration(nsamples, sample_duration, mdhd_time_scale, time_scale) ==
  (2 * nsamples * sample_duration * time_scale + mdhd_time_scale)
     \div (2 * mdhd_time_scale)

\* stco: pos starts at the first chunk's position and grows by chunk.length
new_chunk_offsets(pos, chunks) ==
  [ i \in 1..Len(chunks) |->
      pos + Sum([ j \in 1..(i - 1) |-> chunks[j].length ], 1) ]

\* an stsz with one entry for each chunk, the chunk's length
one_size_each(chunks) == [ i \in 1..Len(chunks) |-> chunks[i].length ]

\* stsz: every chunk's sample_sizes, in order
new_sample_sizes(chunks) == ConcatMap(LAMBDA c : c.sample_sizes, chunks, 1)

\* list.index(x), 0-based
RECURSIVE index_of(_, _, _)
index_of(list, x, i) == IF list[i] = x THEN i - 1 ELSE index_of(list, x, i + 1)

\* a membership test that finds every description new
always_new(sample_description, sample_descriptions) == TRUE

\* whether a chunk's description is yet to be appended (`not in`)
description_is_new(sample_description, sample_descriptions) ==
  ~ \E k \in 1..Len(sample_descriptions) : sample_descriptions[k] = sample_description

\* stsd: the chunks' sample descriptions, each once, in first-seen order
RECURSIVE new_sample_descriptions(_, _, _)
new_sample_descriptions(chunks, i, sample_descriptions) ==
  IF i > Len(chunks) THEN sample_descriptions
  ELSE new_sample_descriptions(chunks, i + 1,
         IF description_is_new(chunks[i].sample_description, sample_descriptions)
         THEN Append(sample_descriptions, chunks[i].sample_description)
         ELSE sample_descriptions)

\* an stsc with a single run, which gives every chunk the first chunk's count
single_run(chunks) ==
  IF chunks = << >> THEN << >>
  ELSE << [ first_chunk |-> 1, samples_per_chunk |-> Len(chunks[1].sample_sizes),
            sample_description_id |-> 1 ] >>

\* stsc: one run per chunk; the id is taken from the list as it stands when
\* the chunk is reached, which is a prefix of the final list
new_sample_to_chunk_map(chunks) ==
  [ i \in 1..Len(chunks) |->
      [ first_chunk |-> (i - 1) + 1,
        samples_per_chunk |-> Len(chunks[i].sample_sizes),
        sample_description_id |->
          index_of(new_sample_descriptions(chunks, 1, << >>),
                   chunks[i].sample_description, 1) + 1 ] ]

\* an stss rebuild whose sampleno stays 1: every chunk's key frames are
\* numbered as if the chunk came first
keyframes_unbased(chunks) ==
  ConcatMap(LAMBDA c : [ k \in 1..Len(c.keyframes) |-> 1 + c.keyframes[k] ],
            chunks, 1)

\* stss: sampleno is 1-based and grows by len(chunk.sample_sizes)
new_key_frame_samples(chunks) ==
  ConcatMap(LAMBDA i :
              [ k \in 1..Len(chunks[i].keyframes) |->
                  1 + Sum([ j \in 1..(i - 1) |-> Len(chunks[j].sample_sizes) ], 1)
                  + chunks[i].keyframes[k] ],
            [ i \in 1..Len(chunks) |-> i ], 1)

\* the durations of mdhd, mvhd, tkhd and elst set in the copy of moov
with_durations(moov, mdhd_duration, duration) ==
  [ moov EXCEPT
      !.kids["trak"].kids["mdia"].kids["mdhd"].duration = mdhd_duration,
      !.kids["mvhd"].duration = duration,
      !.kids["trak"].kids["tkhd"].duration = duration,
      !.kids["trak"].kids["edts"].kids["elst"].edits[1].duration = duration ]

\* the tables of stco, stsz, stsc, stsd, stss and stts set in the copy of moov
with_tables(moov, pos, chunks) ==
  [ moov EXCEPT
      !.kids["trak"].kids["mdia"].kids["minf"].kids["stbl"] =
        [ @ EXCEPT
            !.kids["stco"].chunk_offsets = new_chunk_offsets(pos, chunks),
            !.kids["stsz"].sample_sizes = new_sample_sizes(chunks),
            !.kids["stsc"].sample_to_chunk_map = new_sample_to_chunk_map(chunks),
            !.kids["stsd"].sample_descriptions =
               new_sample_descriptions(chunks, 1, << >>),
            !.kids["stss"].key_frame_samples = new_key_frame_samples(chunks),
            !.kids["stts"].time_to_sample_map[1].sample_count =
               nsamples_of(chunks) ] ]

\* the deep copy of info['moov'] with its durations and tables replaced
rebuilt_moov(self, chunks) ==
  with_tables(
    with_durations(
      self.info.kids["moov"],
      stbl_of(self.info).kids["stts"].time_to_sample_map[1].sample_duration
        * nsamples_of(chunks),
      mvhd_duration(
        nsamples_of(chunks),
        stbl_of(self.info).kids["stts"].time_to_sample_map[1].sample_duration,
        self.info.kids["moov"].kids["trak"].kids["mdia"].kids["mdhd"].time_scale,
        self.info.kids["moov"].kids["mvhd"].time_scale)),
    self.info.kids["mdat"]._position + 8, chunks)

\* a free_len that forgets the 8 bytes of the free atom's own header
free_len_without_header(self, moov_out) ==
  self.info.kids["mdat"]._position - self.info.kids["moov"]._position - Len(moov_out)

\* free_len = mdat._position - moov._position - len(moov_out) - 8
free_len_of(self, moov_out) ==
  self.info.kids["mdat"]._position - self.info.kids["moov"]._position
  - Len(moov_out) - 8

(***************************************************************************)
(* The checks that make update_in_place_using_chunks raise before it       *)
(* writes, in the order of the source.  "" means that none raises.         *)
(***************************************************************************)
dimensions_differ(chunks, videos) ==
  \E i \in 2..Len(chunks) :
     dimensions(videos[chunks[1].video]) # dimensions(videos[chunks[i].video])

sections_disordered(info) ==
  \/ info.kids["moov"]._position > info.kids["free"]._position
  \/ info.kids["free"]._position > info.kids["mdat"]._position

precheck(self, chunks, videos) ==
  IF ~self.writable THEN "not writable"
  ELSE IF dimensions_differ(chunks, videos) THEN "dimensions"
  ELSE IF "free" \notin DOMAIN self.info.kids THEN "missing free section"
  ELSE IF sections_disordered(self.info) THEN "sections disordered"
  ELSE IF Len(stbl_of(self.info).kids["stts"].time_to_sample_map) = 0
       THEN "IndexError"
  ELSE IF stbl_of(self.info).kids["stts"].time_to_sample_map[1].sample_duration = 0
          \/ self.info.kids["moov"].kids["trak"].kids["mdia"].kids["mdhd"].time_scale = 0
       THEN "ZeroDivisionError"
  ELSE IF Len(self.info.kids["moov"].kids["trak"].kids["edts"].kids["elst"].edits) # 1
          \/ self.info.kids["moov"].kids["trak"].kids["edts"].kids["elst"].edits[1].rate
             # 65536
          \/ Len(stbl_of(self.info).kids["stts"].time_to_sample_map) # 1
       THEN "AssertionError"
  ELSE ""

(***************************************************************************)
(* The mdat copy loop.  `fp` is the destination's bytes and `tell` its     *)
(* file position; a chunk of the destination itself must already lie at    *)
(* tell and is skipped, any other chunk is read from its own file.         *)
(***************************************************************************)
\* a copy loop without the assert: chunks of the destination are skipped
\* wherever they lie
chunk_anywhere(chunk, tell) == TRUE

\* assert chunk.offset == self.fp.tell()
chunk_in_place(chunk, tell) == chunk.offset = tell

RECURSIVE write_chunks(_, _, _, _, _, _, _)

\* self.fp.write(chunk.video.fp.read(chunk.length)), and the chunks after it
copy_chunk(selfname, fp, tell, chunks, i, videos, files, data) ==
  write_chunks(selfname, fp_write(fp, tell, data), tell + Len(data), chunks, i + 1,
               videos, files)

write_chunks(selfname, fp, tell, chunks, i, videos, files) ==
  IF i > Len(chunks) THEN [ fp |-> fp, tell |-> tell, ok |-> TRUE ]
  ELSE IF chunks[i].video = selfname THEN
    IF ~chunk_in_place(chunks[i], tell) THEN [ fp |-> fp, tell |-> tell, ok |-> FALSE ]
    ELSE write_chunks(selfname, fp, chunks[i].length + tell, chunks, i + 1,
                      videos, files)
  ELSE copy_chunk(selfname, fp, tell, chunks, i, videos, files,
                  read(files[videos[chunks[i].video].filename].bytes,
                       chunks[i].offset, chunks[i].length))

(***************************************************************************)
(* MP4.update_in_place_using_chunks(chunks) on the object self.  Returns   *)
(* how the call ended (kind: "ok", "NeedsRewrite", "Exception",            *)
(* "AssertionError"), the bytes of the destination file as the call leaves *)
(* them, and the function's local moov.                                    *)
(***************************************************************************)
returned(kind, why, space_needed, fp, moov) ==
  [ kind |-> kind, why |-> why, space_needed |-> space_needed,
    bytes |-> fp, moov |-> moov ]

\* "Compute new length of mdat in bytes"
mdat_length(chunks) == 8 + Sum([ i \in 1..Len(chunks) |-> chunks[i].length ], 1)

\* "Rewrite moov and free": moov_out at moov._position, then the free atom
write_moov_and_free(fp, position, moov_out, free_len) ==
  fp_write(fp_write(fp, position, moov_out), position + Len(moov_out),
           write_free_atom(free_len))

\* after the copy loop: the assert on the end position, truncate, moov, free
update_copied(self, chunks, moov, moov_out, copied) ==
  IF ~copied.ok
     \/ copied.tell # self.info.kids["mdat"]._position + mdat_length(chunks)
  THEN returned("AssertionError", "mdat", 0, copied.fp, moov)
  ELSE returned("ok", "", 0,
                write_moov_and_free(fp_truncate(copied.fp, copied.tell),
                                    moov._position, moov_out,
                                    free_len_of(self, moov_out)),
                moov)

\* "Modify mdat in place with new chunks": the header, then the copy loop
write_mdat(selfname, self, chunks, videos, files) ==
  write_chunks(selfname,
               fp_write(files[self.filename].bytes, self.info.kids["mdat"]._position,
                        write32(mdat_length(chunks)) \o TypeCode["mdat"]),
               self.info.kids["mdat"]._position + 8, chunks, 1, videos, files)

\* a size check that comes after the mdat writes instead of before them
update_sized_late(selfname, self, chunks, videos, files, moov, moov_out) ==
  IF free_len_of(self, moov_out) < 0
  THEN returned("NeedsRewrite", "not enough free space",
                -free_len_of(self, moov_out),
                write_mdat(selfname, self, chunks, videos, files).fp, moov)
  ELSE update_copied(self, chunks, moov, moov_out,
                     write_mdat(selfname, self, chunks, videos, files))

\* "Create new moov section" is done: the size check, then the writes
update_sized(selfname, self, chunks, videos, files, moov, moov_out) ==
  IF free_len_of(self, moov_out) < 0
  THEN returned("NeedsRewrite", "not enough free space",
                -free_len_of(self, moov_out), files[self.filename].bytes, moov)
  ELSE update_copied(self, chunks, moov, moov_out,
                     write_mdat(selfname, self, chunks, videos, files))

update_rebuilt(selfname, self, chunks, videos, files, moov) ==
  update_sized(selfname, self, chunks, videos, files, moov,
               write_atom(files[self.filename].bytes, moov))

update_checked(selfname, self, chunks, videos, files, pre) ==
  IF pre \in {"missing free section", "sections disordered"}
    THEN returned("NeedsRewrite", pre, 0, files[self.filename].bytes,
                  self.info.kids["moov"])
  ELSE IF pre = "AssertionError"
    THEN returned("AssertionError", pre, 0, files[self.filename].bytes,
                  self.info.kids["moov"])
  ELSE IF pre # ""
    THEN returned("Exception", pre, 0, files[self.filename].bytes,
                  self.info.kids["moov"])
  ELSE update_rebuilt(selfname, self, chunks, videos, files,
                      rebuilt_moov(self, chunks))

update_in_place_using_chunks(selfname, chunks, videos, files) ==
  update_checked(selfname, videos[selfname], chunks, videos, files,
                 precheck(videos[selfname], chunks, videos))

(***************************************************************************)
(* MP4.copy_with_padding(dest, padding): the bytes written to the new file.*)
(***************************************************************************)
\* a copy that leaves the chunk offsets as they were
offsets_kept(chunk_offsets, mdat_move) == chunk_offsets

shifted_offsets(chunk_offsets, mdat_move) ==
  [ i \in 1..Len(chunk_offsets) |-> chunk_offsets[i] + mdat_move ]

\* new_mdat_location
new_mdat_location_of(ftyp_out, moov_out, padding) ==
  Len(ftyp_out) + Len(moov_out) + 8 + padding

\* the deep copy of moov with its chunk offsets moved
moved_moov(self, mdat_move) ==
  [ self.info.kids["moov"] EXCEPT
      !.kids["trak"].kids["mdia"].kids["minf"].kids["stbl"]
       .kids["stco"].chunk_offsets = shifted_offsets(@, mdat_move) ]

\* the writes of the with-block
copy_out(self, fp, padding, ftyp_out, new_mdat_location) ==
  ftyp_out
  \o write_atom(fp, moved_moov(self, new_mdat_location
                                     - self.info.kids["mdat"]._position))
  \o write_free_atom(padding)
  \o read(fp, self.info.kids["mdat"]._position, self.info.kids["mdat"].atomsize)

copy_sized(self, fp, padding, ftyp_out) ==
  copy_out(self, fp, padding, ftyp_out,
           new_mdat_location_of(ftyp_out, write_atom(fp, self.info.kids["moov"]),
                                padding))

copy_with_padding(self, fp, padding) ==
  copy_sized(self, fp, padding,
             read(fp, self.info.kids["ftyp"]._position,
                  self.info.kids["ftyp"].atomsize))

(***************************************************************************)
(* parse_filename_and_chunks: MP4(filename).chunks() sliced by the [a:b]   *)
(* suffix of the argument.  An argument is [file, start, stop, open]: with *)
(* open the stop is omitted ("[a:]"); "[:b]" is start 0; no suffix at all  *)
(* is start 0 with open.                                                   *)
(***************************************************************************)
sliced(arg, made, all) ==
  IF made.ok /\ all.ok
  THEN [ ok |-> TRUE, obj |-> made.obj,
         chunks |-> PySlice(all.chunks, arg.start,
                            IF arg.open THEN Len(all.chunks) ELSE arg.stop) ]
  ELSE [ ok |-> FALSE, obj |-> made.obj, chunks |-> << >> ]

chunks_sliced(arg, name, made) ==
  sliced(arg, made, IF made.ok THEN chunks_of(name, made.obj)
                    ELSE [ ok |-> FALSE, chunks |-> << >> ])

parse_filename_and_chunks(arg, name, files, writable) ==
  chunks_sliced(arg, name, MP4(files[arg.file].bytes, arg.file, writable))

\* padding = max(future_frames * 6, dest.info['moov']['atomsize'])
padding_of(ff, dest) ==
  IF ff * 6 > dest.info.kids["moov"].atomsize THEN ff * 6
  ELSE dest.info.kids["moov"].atomsize

(***************************************************************************)
(* The files the runs start from.                                          *)
(***************************************************************************)
DstChunks ==
  << [ sizes |-> <<2, 1>>, keys |-> <<0>>, desc |-> 1 ],
     [ sizes |-> <<1, 2>>, keys |-> <<0, 1>>, desc |-> 1 ] >>

SrcChunks(first_desc, second_desc) ==
  << [ sizes |-> <<1, 1, 1>>, keys |-> <<0>>, desc |-> first_desc ],
     [ sizes |-> <<2, 1, 1>>, keys |-> <<1>>, desc |-> second_desc ] >>

DstFile(layout, free, runs, stss) ==
  [ layout |-> layout, free |-> free, chunks |-> DstChunks,
    descs |-> << Description(1) >>, runs |-> runs, stss |-> stss,
    width |-> 4, height |-> 3, base |-> 1, lead |-> 0, slack |-> 0 ]

\* the destination files: roomy, merged stsc runs, 16 bytes between moov and
\* mdat, no free atom, the encoder's default order, ftyp last, ftyp between
\* moov and free, no stss, a free atom larger than the moov atom
DstInputs ==
  << DstFile(<<"ftyp", "moov", "free", "mdat">>, 200, "each", TRUE),
     DstFile(<<"ftyp", "moov", "free", "mdat">>, 200, "merged", TRUE),
     DstFile(<<"ftyp", "moov", "free", "mdat">>, 8, "each", TRUE),
     DstFile(<<"ftyp", "moov", "mdat">>, 0, "each", TRUE),
     DstFile(<<"ftyp", "free", "mdat", "moov">>, 8, "each", TRUE),
     DstFile(<<"moov", "free", "mdat", "ftyp">>, 200, "each", TRUE),
     DstFile(<<"moov", "ftyp", "free", "mdat">>, 200, "each", TRUE),
     DstFile(<<"ftyp", "moov", "free", "mdat">>, 200, "each", FALSE),
     DstFile(<<"ftyp", "moov", "free", "mdat">>, 520, "each", TRUE) >>

SrcFile(layout, descs, first_desc, second_desc, width, height, lead, slack) ==
  [ layout |-> layout, free |-> 0, chunks |-> SrcChunks(first_desc, second_desc),
    descs |-> descs, runs |-> "merged", stss |-> TRUE, width |-> width,
    height |-> height, base |-> 101, lead |-> lead, slack |-> slack ]

\* the source files: like the destination's video, with a second sample
\* description, with other pixel dimensions, with a byte after the last
\* chunk in mdat, with a byte before the first chunk in mdat, with a sample
\* description larger than the destination's moov atom
SrcInputs ==
  << SrcFile(<<"ftyp", "moov", "free", "mdat">>, << Description(1) >>, 1, 1, 4, 3, 0, 0),
     SrcFile(<<"ftyp", "free", "mdat", "moov">>, << Description(2), Description(1) >>,
             1, 2, 4, 3, 0, 0),
     SrcFile(<<"ftyp", "moov", "free", "mdat">>, << Description(1) >>, 1, 1, 2, 2, 0, 0),
     SrcFile(<<"ftyp", "moov", "free", "mdat">>, << Description(1) >>, 1, 1, 4, 3, 0, 1),
     SrcFile(<<"ftyp", "moov", "free", "mdat">>, << Description(1) >>, 1, 1, 4, 3, 1, 0),
     SrcFile(<<"ftyp", "moov", "free", "mdat">>, << LongDescription >>, 1, 1, 4, 3, 0, 0) >>

\* the command lines of the append driver: the destination, whole or a
\* slice of it, alone, followed by the source, or followed by the source
\* and the source again; and --future_frames
Arg(file, start, stop, open) ==
  [ file |-> file, start |-> start, stop |-> stop, open |-> open ]

DstArgs ==
  { Arg("dst", 0, 0, TRUE), Arg("dst", 0, 1, FALSE), Arg("dst", 1, 0, TRUE),
    Arg("dst", 0, -1, FALSE), Arg("dst", 0, 0, FALSE) }

SrcArgs == { Arg("src", 0, 0, TRUE), Arg("src", -1, 0, TRUE) }

CommandLines ==
  { <<d>> : d \in DstArgs } \cup { <<d, s>> : d \in DstArgs, s \in SrcArgs }
    \cup { << Arg("dst", 0, 0, TRUE), Arg("src", 0, 0, TRUE), Arg("src", -1, 0, TRUE) >> }

FutureFrames == {0, 100}

(***************************************************************************)
(* State.                                                                  *)
(***************************************************************************)
VARIABLES
  files,          \* the file system: name -> [exists, bytes]
  videos,         \* the MP4 objects "dest" and "source"
  pc,             \* where the program is
  chunks,         \* the chunk list of the last update_in_place_using_chunks
  self,           \* the object that call was made on
  result,         \* how that call ended: [kind, why, space_needed]
  moov,           \* the local moov of that call when it ended
  before,         \* the file system when that call was made
  argv,           \* the append driver's filenames_and_chunks
  future_frames,  \* the append driver's future_frames
  rewritten       \* whether the driver has replaced the destination by a copy

vars == << files, videos, pc, chunks, self, result, moov, before, argv,
           future_frames, rewritten >>

NoFile == [ exists |-> FALSE, bytes |-> << >> ]

NoVideo == [ filename |-> "", writable |-> FALSE, info |-> EmptyDict ]

NoResult == [ kind |-> "", why |-> "", space_needed |-> 0 ]

Init ==
  /\ \E d \in 1..Len(DstInputs), s \in 1..Len(SrcInputs) :
       files = [ dst |-> [ exists |-> TRUE, bytes |-> GenFile(DstInputs[d]) ],
                 src |-> [ exists |-> TRUE, bytes |-> GenFile(SrcInputs[s]) ],
                 tmp |-> NoFile ]
  /\ videos = [ dest |-> NoVideo, source |-> NoVideo ]
  /\ pc = "init"
  /\ chunks = << >>
  /\ self = ""
  /\ result = NoResult
  /\ moov = EmptyDict
  /\ before = files
  /\ argv = << >>
  /\ future_frames = 0
  /\ rewritten = FALSE

\* the chunk lists of at most n chunks drawn from the set S of chunks
RECURSIVE ChunkLists(_, _)
ChunkLists(S, n) ==
  IF n = 0 THEN { << >> }
  ELSE LET shorter == ChunkLists(S, n - 1)
       IN  shorter \cup { Append(l, c) : l \in shorter, c \in S }

Range(s) == { s[i] : i \in 1..Len(s) }

\* the call's effect on the state: r is what the call returned
Called(selfname, list, objs, r) ==
  /\ chunks' = list
  /\ self' = selfname
  /\ videos' = objs
  /\ before' = files
  /\ result' = [ kind |-> r.kind, why |-> r.why, space_needed |-> r.space_needed ]
  /\ moov' = r.moov
  /\ files' = [ files EXCEPT ![objs[selfname].filename].bytes = r.bytes ]

Call(selfname, list, objs) ==
  Called(selfname, list, objs,
         update_in_place_using_chunks(selfname, list, objs, files))

(***************************************************************************)
(* A caller opens the destination writable and the source read-only.       *)
(***************************************************************************)
Open ==
  /\ pc = "init"
  /\ videos' = [ dest   |-> MP4(files["dst"].bytes, "dst", TRUE).obj,
                 source |-> MP4(files["src"].bytes, "src", FALSE).obj ]
  /\ pc' = "open"
  /\ UNCHANGED << files, chunks, self, result, moov, before, argv, future_frames, rewritten >>

(***************************************************************************)
(* The caller hands one of the objects a list of chunks of the two videos  *)
(* (the docstring's a.update_in_place_using_chunks(a.chunks() + b.chunks())*)
(***************************************************************************)
Update ==
  /\ pc = "open"
  /\ \E selfname \in {"dest", "source"} :
     \E list \in ChunkLists(Range(chunks_of("dest", videos["dest"]).chunks)
                            \cup Range(chunks_of("source", videos["source"]).chunks),
                            MaxChunks) :
       Call(selfname, list, videos)
  /\ pc' = "called"
  /\ UNCHANGED << argv, future_frames, rewritten >>

(***************************************************************************)
(* append(filenames_and_chunks, future_frames).                            *)
(***************************************************************************)
Append_ ==
  /\ pc = "init"
  /\ \E a \in CommandLines, ff \in FutureFrames :
       /\ argv' = a
       /\ future_frames' = ff
  /\ pc' = "loop"
  /\ UNCHANGED << files, videos, chunks, self, result, moov, before, rewritten >>

\* dest = chunks[0].video; dest.update_in_place_using_chunks(chunks)
AppendCall(list, objs) ==
  IF list = << >> THEN
    /\ pc' = "failed"
    /\ UNCHANGED << files, videos, chunks, self, result, moov, before >>
  ELSE
    /\ Call(list[1].video, list, objs)
    /\ pc' = CASE result'.kind = "ok" -> "done"
               [] result'.kind = "NeedsRewrite" -> "rewrite"
               [] OTHER -> "failed"

\* for file in filenames_and_chunks[1:]: chunks.extend(...): what the
\* arguments from the i-th on add, p being what the i-th was parsed into
RECURSIVE extended(_, _, _)
extended_by(p, rest) ==
  [ ok |-> p.ok /\ rest.ok, obj |-> p.obj, chunks |-> p.chunks \o rest.chunks ]

extended(args, i, fs) ==
  IF i > Len(args) THEN [ ok |-> TRUE, obj |-> NoVideo, chunks |-> << >> ]
  ELSE extended_by(parse_filename_and_chunks(args[i], "source", fs, FALSE),
                   extended(args, i + 1, fs))

\* d and s are what parse_filename_and_chunks made of the arguments
AppendParsed(d, s) ==
  IF ~d.ok \/ ~s.ok THEN
    /\ pc' = "failed"
    /\ UNCHANGED << files, videos, chunks, self, result, moov, before >>
  ELSE AppendCall(d.chunks \o s.chunks, [ dest |-> d.obj, source |-> s.obj ])

\* one pass of the while-loop up to the call and what it raises
AppendPass ==
  /\ pc = "loop"
  /\ AppendParsed(parse_filename_and_chunks(argv[1], "dest", files, TRUE),
                  extended(argv, 2, files))
  /\ UNCHANGED << argv, future_frames, rewritten >>

\* dest.copy_with_padding(tmpname, free)
Rewritten(dest, free) ==
  files' = [ files EXCEPT !["tmp"] =
               [ exists |-> TRUE,
                 bytes |-> copy_with_padding(dest, files[dest.filename].bytes, free) ] ]

\* the except branch: the padded copy is written to the temporary file
AppendRewrite ==
  /\ pc = "rewrite"
  /\ Rewritten(videos[self], result.space_needed + padding_of(future_frames, videos[self]))
  /\ pc' = "rename"
  /\ UNCHANGED << videos, chunks, self, result, moov, before, argv, future_frames,
                  rewritten >>

\* os.rename(tmpname, dest.filename); continue
AppendRename ==
  /\ pc = "rename"
  /\ files' = [ files EXCEPT ![videos[self].filename] = files["tmp"],
                             !["tmp"] = NoFile ]
  /\ pc' = "loop"
  /\ rewritten' = TRUE
  /\ UNCHANGED << videos, chunks, self, result, moov, before, argv, future_frames >>

(***************************************************************************)
(* The file system may refuse what the except branch asks of it.  open()   *)
(* has created the temporary file when one of the four out.write calls of  *)
(* copy_with_padding raises IOError (a full disk): the file then holds     *)
(* what the calls before it wrote.  os.rename may raise OSError.  append   *)
(* has no handler for either and no finally clause: the exception leaves   *)
(* append with the file system as it is.                                   *)
(***************************************************************************)
\* the lengths the temporary file can have after 0..3 of the four writes
lengths_written(dest, fp, free) ==
  { 0,
    dest.info.kids["ftyp"].atomsize,
    dest.info.kids["ftyp"].atomsize + Len(write_atom(fp, dest.info.kids["moov"])),
    dest.info.kids["ftyp"].atomsize + Len(write_atom(fp, dest.info.kids["moov"]))
      + 8 + free }

RewriteFailed(dest, free) ==
  \E n \in lengths_written(dest, files[dest.filename].bytes, free) :
    files' = [ files EXCEPT !["tmp"] =
                 [ exists |-> TRUE,
                   bytes |-> SubSeq(copy_with_padding(dest, files[dest.filename].bytes,
                                                      free), 1, n) ] ]

AppendRewriteFails ==
  /\ pc = "rewrite"
  /\ RewriteFailed(videos[self],
                   result.space_needed + padding_of(future_frames, videos[self]))
  /\ result' = [ kind |-> "IOError", why |-> "copy_with_padding", space_needed |-> 0 ]
  /\ pc' = "failed"
  /\ UNCHANGED << videos, chunks, self, moov, before, argv, future_frames, rewritten >>

AppendRenameFails ==
  /\ pc = "rename"
  /\ result' = [ kind |-> "OSError", why |-> "rename", space_needed |-> 0 ]
  /\ pc' = "failed"
  /\ UNCHANGED << files, videos, chunks, self, moov, before, argv, future_frames,
                  rewritten >>

Next ==
  \/ Open \/ Update \/ Append_ \/ AppendPass \/ AppendRewrite \/ AppendRename
  \/ AppendRewriteFails \/ AppendRenameFails

Spec == Init /\ [][Next]_vars

(***************************************************************************)
(* append is a sequential program: once called it takes its next step,     *)
(* the pass of the loop, the copy or the rename, whenever it has one.      *)
(* Each of the three has a step at its place in the program whatever the   *)
(* files hold (AppendPass at "loop", AppendRewrite at "rewrite",           *)
(* AppendRename at "rename"), so the fairness is stated on the places.     *)
(***************************************************************************)
Advances(from, to) == pc = from /\ pc' \in to

FairSpec ==
  /\ Spec
  /\ WF_pc(Advances("loop", {"done", "rewrite", "failed"}))
  /\ WF_pc(Advances("rewrite", {"rename"}))
  /\ WF_pc(Advances("rename", {"loop"}))

(***************************************************************************)
(* What the properties below read off the state.                           *)
(***************************************************************************)
\* the call to update_in_place_using_chunks has just raised NeedsRewrite
RaisedNeedsRewrite == pc \in {"called", "rewrite"} /\ result.kind = "NeedsRewrite"

\* the call to update_in_place_using_chunks has just returned normally
Succeeded == pc \in {"called", "done"} /\ result.kind = "ok"

\* a table of the moov the call rebuilt
rebuilt(table) == moov.kids["trak"].kids["mdia"].kids["minf"].kids["stbl"].kids[table]

\* the same table as the object had parsed it from its file
original(table) == stbl_of(videos[self].info).kids[table]

\* the bytes of the destination's file after and before the call
bytes_after == files[videos[self].filename].bytes

bytes_before == before[videos[self].filename].bytes

\* the call was handed a chunk of the other video
HasForeignChunk == \E i \in 1..Len(chunks) : chunks[i].video # self

\* the call was handed a chunk of the video it was made on
HasOwnChunk == \E i \in 1..Len(chunks) : chunks[i].video = self

(***************************************************************************)
(* C1.  When update_in_place_using_chunks raises NeedsRewriteException,    *)
(* whatever the reason, every file is byte for byte what it was when the   *)
(* call was made: nothing was written to the destination, nothing was      *)
(* truncated.                                                              *)
(***************************************************************************)
NeedsRewriteLeavesFileUntouched == RaisedNeedsRewrite => files = before

\* the moov did not fit, with chunks of both videos in the list
NeedsRewriteForSpace ==
  /\ RaisedNeedsRewrite
  /\ result.why = "not enough free space"
  /\ HasForeignChunk
  /\ HasOwnChunk

(***************************************************************************)
(* C2.  After update_in_place_using_chunks returns, the rebuilt stco has   *)
(* one offset per chunk, offset i is mdat._position + 8 + the lengths of   *)
(* the chunks before chunk i, and the destination file holds at that       *)
(* offset the chunk.length bytes the chunk had at chunk.offset in its own  *)
(* file when the call was made, for the chunks copied from the other file  *)
(* and for the chunks of the destination alike.                            *)
(***************************************************************************)
offset_expected(i) ==
  videos[self].info.kids["mdat"]._position + 8
  + Sum([ j \in 1..(i - 1) |-> chunks[j].length ], 1)

OffsetsAndBytesCorrect ==
  Succeeded =>
    /\ Len(rebuilt("stco").chunk_offsets) = Len(chunks)
    /\ \A i \in 1..Len(chunks) :
         /\ rebuilt("stco").chunk_offsets[i] = offset_expected(i)
         /\ Len(read(bytes_after, offset_expected(i), chunks[i].length))
              = chunks[i].length
         /\ read(bytes_after, rebuilt("stco").chunk_offsets[i], chunks[i].length)
              = read(before[videos[chunks[i].video].filename].bytes,
                     chunks[i].offset, chunks[i].length)

\* a chunk of the destination kept in place after a copied chunk
CopiedThenKept ==
  /\ Succeeded
  /\ Len(chunks) = 3
  /\ chunks[1].video # self
  /\ chunks[2].video = self
  /\ chunks[3].video # self

(***************************************************************************)
(* C3.  Identity append: update_in_place_using_chunks(self.chunks()) on a  *)
(* file laid out ftyp, moov, free, mdat.                                   *)
(***************************************************************************)
\* the call was a.update_in_place_using_chunks(a.chunks()) and returned
IdentityApplied ==
  /\ Succeeded
  /\ chunks # << >>
  /\ chunks = chunks_of(self, videos[self]).chunks

\* the file was ftyp, moov, free, mdat, in this order
Conformant == videos[self].info.order = <<"ftyp", "moov", "free", "mdat">>

\* the bytes of a top-level atom of the destination when the call was made
atom_before(atomtype) ==
  read(bytes_before, videos[self].info.kids[atomtype]._position,
       videos[self].info.kids[atomtype].atomsize)

\* the same range of the file after the call
atom_after(atomtype) ==
  read(bytes_after, videos[self].info.kids[atomtype]._position,
       videos[self].info.kids[atomtype].atomsize)

\* the file had an stss atom, and its stsc had one run for each chunk
HadStss == "_position" \in DOMAIN original("stss")

OneRunPerChunk == Len(original("stsc").sample_to_chunk_map) = Len(chunks)

\* the bytes the rebuilt moov is longer by: 12 for every run that stsc
\* gains, and a whole stss atom (16 bytes and 4 for each sample) when the
\* file had none
moov_growth ==
  12 * (Len(chunks) - Len(original("stsc").sample_to_chunk_map))
  + (IF HadStss THEN 0 ELSE 16 + 4 * Len(original("stsz").sample_sizes))

samples_in_chunks == Sum([ i \in 1..Len(chunks) |-> Len(chunks[i].sample_sizes) ], 1)

FrameCountsAgree ==
  Succeeded =>
    /\ Len(rebuilt("stsz").sample_sizes) = samples_in_chunks
    /\ rebuilt("stts").time_to_sample_map[1].sample_count = samples_in_chunks
    /\ Sum([ r \in 1..Len(rebuilt("stsc").sample_to_chunk_map) |->
               rebuilt("stsc").sample_to_chunk_map[r].samples_per_chunk ], 1)
         = samples_in_chunks
    /\ Len(rebuilt("stts").time_to_sample_map) = 1
    /\ rebuilt("stts").time_to_sample_map[1].sample_duration
         = original("stts").time_to_sample_map[1].sample_duration

\* chunks of two videos whose frame count differs from the file's
FramesAddedAndDropped ==
  /\ Succeeded
  /\ HasForeignChunk
  /\ HasOwnChunk
  /\ Len(chunks) = 2
  /\ samples_in_chunks # original("stts").time_to_sample_map[1].sample_count

(***************************************************************************)
(* C5.  After update_in_place_using_chunks returns, the rebuilt stss holds *)
(* base(i) + o for every chunk i and every key frame offset o of chunk i,  *)
(* where base(i) is 1 + the samples of the chunks before i; it holds       *)
(* nothing else, in the order of the chunks, and every entry is in         *)
(* 1..nsamples.  (Checked for files whose stsz lists every sample that     *)
(* their stsc counts.)                                                     *)
(***************************************************************************)
base(i) == 1 + Sum([ j \in 1..(i - 1) |-> Len(chunks[j].sample_sizes) ], 1)

\* the chunk that sample number e (1-based) of the rebuilt video lies in
chunk_holding(e) ==
  CHOOSE i \in 1..Len(chunks) : base(i) <= e /\ e < base(i) + Len(chunks[i].sample_sizes)

KeyframesPreserved ==
  Succeeded =>
    /\ \A i \in 1..Len(chunks) : \A k \in 1..Len(chunks[i].keyframes) :
         \E e \in 1..Len(rebuilt("stss").key_frame_samples) :
            rebuilt("stss").key_frame_samples[e] = base(i) + chunks[i].keyframes[k]
    /\ \A e \in 1..Len(rebuilt("stss").key_frame_samples) :
         /\ rebuilt("stss").key_frame_samples[e] \in 1..samples_in_chunks
         /\ \E i \in 1..Len(chunks) : \E k \in 1..Len(chunks[i].keyframes) :
              rebuilt("stss").key_frame_samples[e] = base(i) + chunks[i].keyframes[k]
    /\ Len(rebuilt("stss").key_frame_samples)
         = Sum([ i \in 1..Len(chunks) |-> Len(chunks[i].keyframes) ], 1)
    /\ \A e, f \in 1..Len(rebuilt("stss").key_frame_samples) :
         e < f => chunk_holding(rebuilt("stss").key_frame_samples[e])
                    <= chunk_holding(rebuilt("stss").key_frame_samples[f])

\* a chunk with a key frame that is not its first sample, behind another
KeyframeBehindFirstChunk ==
  /\ Succeeded
  /\ Len(chunks) >= 2
  /\ HasForeignChunk
  /\ \E i \in 2..Len(chunks) : \E k \in 1..Len(chunks[i].keyframes) :
        chunks[i].keyframes[k] > 0

(***************************************************************************)
(* C6.  After update_in_place_using_chunks returns, the rebuilt stsd holds *)
(* every distinct sample description of the chunks once, in the order in   *)
(* which the chunks first use them; stsc has one run per chunk, run i with *)
(* first_chunk = i + 1 (i from 0); the run's sample_description_id is the  *)
(* 1-based place of the chunk's description in stsd, so two chunks have    *)
(* the same id exactly when their descriptions are equal.                  *)
(***************************************************************************)
\* the first chunk (1-based) that uses a description
first_use(description) ==
  CHOOSE i \in 1..Len(chunks) :
    /\ chunks[i].sample_description = description
    /\ \A j \in 1..(i - 1) : chunks[j].sample_description # description

DescriptionsDeduplicated ==
  Succeeded =>
    /\ \A a, b \in 1..Len(rebuilt("stsd").sample_descriptions) :
         a # b => rebuilt("stsd").sample_descriptions[a]
                    # rebuilt("stsd").sample_descriptions[b]
    /\ { rebuilt("stsd").sample_descriptions[a] :
           a \in 1..Len(rebuilt("stsd").sample_descriptions) }
         = { chunks[i].sample_description : i \in 1..Len(chunks) }
    /\ \A a, b \in 1..Len(rebuilt("stsd").sample_descriptions) :
         a < b => first_use(rebuilt("stsd").sample_descriptions[a])
                    < first_use(rebuilt("stsd").sample_descriptions[b])
    /\ Len(rebuilt("stsc").sample_to_chunk_map) = Len(chunks)
    /\ \A i \in 1..Len(chunks) :
         /\ rebuilt("stsc").sample_to_chunk_map[i].first_chunk = i
         /\ rebuilt("stsc").sample_to_chunk_map[i].samples_per_chunk
              = Len(chunks[i].sample_sizes)
         /\ rebuilt("stsc").sample_to_chunk_map[i].sample_description_id
              \in 1..Len(rebuilt("stsd").sample_descriptions)
         /\ rebuilt("stsd").sample_descriptions[
              rebuilt("stsc").sample_to_chunk_map[i].sample_description_id]
              = chunks[i].sample_description
    /\ \A i, j \in 1..Len(chunks) :
         (rebuilt("stsc").sample_to_chunk_map[i].sample_description_id
            = rebuilt("stsc").sample_to_chunk_map[j].sample_description_id)
         <=> (chunks[i].sample_description = chunks[j].sample_description)

\* a description used, then another, then the first again; the source file
\* lists the two in the other order
DescriptionUsedAgain ==
  /\ Succeeded
  /\ Len(chunks) >= 3
  /\ \E i, j, k \in 1..Len(chunks) :
        /\ i < j /\ j < k
        /\ chunks[i].sample_description # chunks[j].sample_description
        /\ chunks[i].sample_description = chunks[k].sample_description
  /\ rebuilt("stsd").sample_descriptions
       # stbl_of(videos["source"].info).kids["stsd"].sample_descriptions
  /\ Len(rebuilt("stsd").sample_descriptions) = 2

(***************************************************************************)
(* C7.  For every file on disk that MP4() opens: when chunks() returns a   *)
(* list, the first chunk starts at mdat._position + 8, every chunk starts  *)
(* where the one before it ends, and the last chunk ends at                *)
(* mdat._position + mdat.atomsize; when the chunks that stco, stsc and     *)
(* stsz describe do not tile mdat in this way, chunks() raises.            *)
(***************************************************************************)
\* the chunks that the tables of a video describe
described_chunks(name, video) ==
  [ i \in 1..Len(stbl_of(video.info).kids["stco"].chunk_offsets) |->
      Chunk(name, video, i - 1) ]

tiles(video, list) ==
  /\ has_key(video.info, "mdat")
  /\ list # << >> =>
       /\ list[1].offset = video.info.kids["mdat"]._position + 8
       /\ list[Len(list)].offset + list[Len(list)].length
            = video.info.kids["mdat"]._position + video.info.kids["mdat"].atomsize
  /\ list = << >> => video.info.kids["mdat"].atomsize = 8
  /\ \A i \in 1..(Len(list) - 1) : list[i + 1].offset = list[i].offset + list[i].length

tiles_or_fails(name, made) ==
  made.ok =>
    /\ chunks_of(name, made.obj).ok =>
         /\ chunks_of(name, made.obj).chunks = described_chunks(name, made.obj)
         /\ tiles(made.obj, chunks_of(name, made.obj).chunks)
    /\ ((\A i \in 1..Len(stbl_of(made.obj.info).kids["stco"].chunk_offsets) :
            Chunk_ok(made.obj, i - 1))
        /\ ~tiles(made.obj, described_chunks(name, made.obj)))
         => ~chunks_of(name, made.obj).ok

ChunksTileMdatOrFail ==
  \A f \in DOMAIN files :
     files[f].exists => tiles_or_fails(f, MP4(files[f].bytes, f, FALSE))

\* a destination that was cut to its first chunk in place, whose chunks()
\* returns that chunk, beside a source whose chunks do not tile its mdat,
\* whose chunks() raises
TiledBesideUntiled ==
  /\ Succeeded
  /\ Len(chunks) = 1
  /\ Len(chunks_of("dst", MP4(files["dst"].bytes, "dst", FALSE).obj).chunks) = 1
  /\ MP4(files["src"].bytes, "src", FALSE).ok
  /\ ~chunks_of("src", MP4(files["src"].bytes, "src", FALSE).obj).ok

(***************************************************************************)
(* C8.  update_in_place_using_chunks returns only if every chunk comes     *)
(* from a video with the destination's track_width and track_height; when  *)
(* a chunk's dimensions differ from the destination's, the call raises     *)
(* 'All videos must have same pixel dimensions' and no byte of the         *)
(* destination is written.  The code compares every chunk with             *)
(* chunks[0].video instead: a list whose chunks all come from one other    *)
(* video passes, whatever the destination's dimensions.                    *)
(***************************************************************************)
\* a chunk of the list comes from a video of other dimensions than self
ForeignDimensions ==
  \E i \in 1..Len(chunks) :
     dimensions(videos[chunks[i].video]) # dimensions(videos[self])

DimensionsOfDestinationEnforced ==
  /\ Succeeded => ~ForeignDimensions
  /\ (pc = "called" /\ videos[self].writable /\ ForeignDimensions) =>
        /\ result.kind = "Exception"
        /\ result.why = "dimensions"
        /\ files = before

(***************************************************************************)
(* C9.  update_in_place_using_chunks writes to the destination only when   *)
(* its top-level atoms are ftyp, moov, free, mdat in this order; for a     *)
(* destination with the four atoms in another order, ftyp not first or     *)
(* ftyp behind mdat included, it raises NeedsRewriteException('sections    *)
(* disordered') and writes nothing.  The code looks at the positions of    *)
(* moov, free and mdat only: a file with ftyp elsewhere is updated in      *)
(* place, and its ftyp is overwritten or cut off.                          *)
(***************************************************************************)
\* the destination has the four atoms, in another order
Disordered ==
  /\ {"ftyp", "moov", "free", "mdat"} \subseteq DOMAIN videos[self].info.kids
  /\ ~Conformant

InPlaceOnlyWhenOrdered ==
  /\ (Succeeded /\ files # before) => Conformant
  /\ (pc \in {"called", "done", "rewrite"} /\ videos[self].writable
      /\ ~dimensions_differ(chunks, videos) /\ Disordered) =>
        /\ result.kind = "NeedsRewrite"
        /\ result.why = "sections disordered"
        /\ files = before

(***************************************************************************)
(* C10.  The size check and what the append driver makes of it.            *)
(***************************************************************************)
\* the bytes between the end of the file's moov and its mdat
room ==
  videos[self].info.kids["mdat"]._position
  - videos[self].info.kids["moov"]._position - videos[self].info.kids["moov"].atomsize

\* the bytes the rebuilt moov is longer than the file's moov
growth == Len(write_atom(bytes_before, moov)) - videos[self].info.kids["moov"].atomsize

\* the payload of the free atom of the file that copy_with_padding wrote
free_written(made) == made.obj.info.kids["free"].atomsize - 8

\* max(future_frames * 6, dest.info['moov']['atomsize'])
padding_expected ==
  IF future_frames * 6 > videos[self].info.kids["moov"].atomsize
  THEN future_frames * 6 ELSE videos[self].info.kids["moov"].atomsize

\* C10 as the claim states it: a destination whose moov ends 16 bytes
\* before mdat and whose rebuilt moov is 64 bytes larger raises
\* NeedsRewriteException with space_needed = 48, and append rewrites the
\* file with free = 48 + max(future_frames * 6, moov size).
SpaceNeededIs48 ==
  /\ (RaisedNeedsRewrite /\ room = 16 /\ growth = 64) => result.space_needed = 48
  /\ (pc = "rename" /\ room = 16 /\ growth = 64) =>
        free_written(MP4(files["tmp"].bytes, "tmp", FALSE)) = 48 + padding_expected

\* C10 as it holds: when the rebuilt moov does not fit, the exception
\* carries space_needed = -free_len, where free_len = mdat._position -
\* moov._position - len(moov_out) - 8, which is the growth of moov, less the
\* room between moov and mdat, plus the 8 bytes of the free atom's header;
\* the other NeedsRewriteExceptions carry 0.  With 16 bytes of room and a
\* moov that grows by 64 bytes, space_needed is 56, and append rewrites
\* the file with a free atom of 56 + max(future_frames * 6, atomsize of the
\* file's moov) bytes of payload.
SpaceNeededIsShortfall ==
  /\ (RaisedNeedsRewrite /\ result.why = "not enough free space") =>
        /\ result.space_needed
             = -(videos[self].info.kids["mdat"]._position
                 - videos[self].info.kids["moov"]._position
                 - Len(write_atom(bytes_before, moov)) - 8)
        /\ result.space_needed = growth - room + 8
        /\ result.space_needed > 0
  /\ (RaisedNeedsRewrite /\ result.why # "not enough free space") =>
        result.space_needed = 0
  /\ (RaisedNeedsRewrite /\ room = 16 /\ growth = 64) => result.space_needed = 56
  /\ pc = "rename" =>
        free_written(MP4(files["tmp"].bytes, "tmp", FALSE))
          = result.space_needed + padding_expected
  /\ (pc = "rename" /\ room = 16 /\ growth = 64) =>
        free_written(MP4(files["tmp"].bytes, "tmp", FALSE)) = 56 + padding_expected

\* append has rewritten a file with 16 bytes of room whose moov grows by 64
RewrittenForSpace ==
  /\ pc = "rename"
  /\ room = 16
  /\ growth = 64
  /\ result.why = "not enough free space"
  /\ future_frames * 6 > videos[self].info.kids["moov"].atomsize

(***************************************************************************)
(* C11.  The append driver terminates: whenever the loop of append is      *)
(* entered, after finitely many rounds of NeedsRewrite, full rewrite and   *)
(* retry the call succeeds (or a fatal error ends append) and the loop     *)
(* stops, for every free payload F, padding P and moov growth G, P < F < G *)
(* included.  The retry after a rewrite with free = G - F + P has          *)
(* free_len = P - F, so with P < F < G it raises again asking for F - P,   *)
(* the next rewrite restores the free payload F, and the driver alternates *)
(* between the two files for ever.                                         *)
(***************************************************************************)
DriverTerminates == (pc = "loop") ~> (pc \in {"done", "failed"})

(***************************************************************************)
(* C12.  The temporary file <destination>-tmp<pid> of a full rewrite never *)
(* outlives the append call: when append has returned or raised, the file  *)
(* does not exist (it was renamed over the destination, or it was removed  *)
(* before the error of a failed write or rename reached the caller).       *)
(* append removes nothing: a copy_with_padding or an os.rename that raises *)
(* leaves the temporary file behind.                                       *)
(***************************************************************************)
TemporaryFileNeverOutlivesAppend ==
  pc \in {"done", "failed"} => ~files["tmp"].exists

(***************************************************************************)
(* C13.  After the driver has rewritten the destination with               *)
(* free = space_needed + padding, padding = max(future_frames * 6, size of *)
(* the moov atom), its retry of the same chunk list has headroom of at     *)
(* least the moov size: the free_len it computes is >= the atom size of    *)
(* the file's moov, so it does not raise NeedsRewriteException and leaves  *)
(* a free atom at least that large.                                        *)
(* space_needed is the shortfall counted with the old free area, and the   *)
(* rewrite replaces that area: with an old free payload F the retry        *)
(* computes free_len = padding - F (padding - growth when the file had no  *)
(* usable free atom and space_needed was 0).                               *)
(***************************************************************************)
\* the pass of the loop that followed a rewrite has made its call
Retried == rewritten /\ pc \in {"done", "rewrite"}

\* the free_len that call computed
free_len == free_len_of(videos[self], write_atom(bytes_before, moov))

RetryHasHeadroom ==
  Retried =>
    /\ result.kind = "ok"
    /\ free_len >= videos[self].info.kids["moov"].atomsize
    /\ "free" \in DOMAIN MP4(bytes_after, "dst", FALSE).obj.info.kids
    /\ free_written(MP4(bytes_after, "dst", FALSE))
         >= videos[self].info.kids["moov"].atomsize

(***************************************************************************)
(* C14.  copy_with_padding(dest, padding) writes a file of exactly ftyp,   *)
(* moov, free (payload = padding), mdat in this order, whatever the order  *)
(* of the atoms in the original; the new mdat starts at len(ftyp_bytes) +  *)
(* len(moov_bytes) + 8 + padding, the mdat bytes are copied verbatim, and  *)
(* every stco offset is shifted by new_mdat_position - old_mdat_position,  *)
(* so that the chunk list of the new file tiles its mdat and each chunk    *)
(* addresses the same payload bytes as before.  An apply on the rewritten  *)
(* file therefore never raises NeedsRewriteException for "missing free     *)
(* section" or "sections disordered".                                      *)
(***************************************************************************)
\* the file the driver's copy_with_padding has written, opened
made_tmp == MP4(files["tmp"].bytes, "tmp", FALSE)

\* the padding the driver asked for
free_asked == result.space_needed + padding_expected

\* out, parsed as new, is the padded copy of the file fp that old was made of
laid_out(old, fp, out, new, padding) ==
  /\ new.info.order = <<"ftyp", "moov", "free", "mdat">>
  /\ new.info.kids["ftyp"]._position = 0
  /\ new.info.kids["ftyp"].atomsize = old.info.kids["ftyp"].atomsize
  /\ read(out, 0, new.info.kids["ftyp"].atomsize)
       = read(fp, old.info.kids["ftyp"]._position, old.info.kids["ftyp"].atomsize)
  /\ new.info.kids["moov"]._position = old.info.kids["ftyp"].atomsize
  /\ new.info.kids["moov"].atomsize = Len(write_atom(fp, old.info.kids["moov"]))
  /\ new.info.kids["free"]._position
       = new.info.kids["moov"]._position + new.info.kids["moov"].atomsize
  /\ new.info.kids["free"].atomsize = 8 + padding
  /\ new.info.kids["mdat"]._position
       = old.info.kids["ftyp"].atomsize + Len(write_atom(fp, old.info.kids["moov"]))
         + 8 + padding
  /\ new.info.kids["mdat"].atomsize = old.info.kids["mdat"].atomsize
  /\ read(out, new.info.kids["mdat"]._position, new.info.kids["mdat"].atomsize)
       = read(fp, old.info.kids["mdat"]._position, old.info.kids["mdat"].atomsize)
  /\ Len(out) = new.info.kids["mdat"]._position + new.info.kids["mdat"].atomsize
  /\ stbl_of(new.info).kids["stco"].chunk_offsets
       = [ i \in 1..Len(stbl_of(old.info).kids["stco"].chunk_offsets) |->
             stbl_of(old.info).kids["stco"].chunk_offsets[i]
             + new.info.kids["mdat"]._position - old.info.kids["mdat"]._position ]
  /\ \A t \in {"stsz", "stsc", "stss", "stts", "stsd"} :
       \A k \in DOMAIN stbl_of(old.info).kids[t] \ {"_position"} :
          stbl_of(new.info).kids[t][k] = stbl_of(old.info).kids[t][k]

\* the chunks of the copy hold the bytes the chunks of the original hold
same_payload(was, fp, now, out) ==
  /\ Len(now) = Len(was)
  /\ \A i \in 1..Len(was) :
       /\ now[i].length = was[i].length
       /\ now[i].sample_sizes = was[i].sample_sizes
       /\ read(out, now[i].offset, now[i].length) = read(fp, was[i].offset, was[i].length)

copied_chunks(old, fp, out, new, was, now) ==
  /\ was.ok
  /\ now.ok
  /\ tiles(new, now.chunks)
  /\ same_payload(was.chunks, fp, now.chunks, out)

CopyWithPaddingLayout ==
  /\ pc = "rename" =>
       /\ made_tmp.ok
       /\ laid_out(videos[self], files[videos[self].filename].bytes,
                   files["tmp"].bytes, made_tmp.obj, free_asked)
       /\ copied_chunks(videos[self], files[videos[self].filename].bytes,
                        files["tmp"].bytes, made_tmp.obj,
                        chunks_of(self, videos[self]),
                        chunks_of("tmp", made_tmp.obj))
       /\ "free" \in DOMAIN made_tmp.obj.info.kids
       /\ ~sections_disordered(made_tmp.obj.info)
  /\ (Retried /\ result.kind = "NeedsRewrite") =>
       result.why \notin {"missing free section", "sections disordered"}

\* the copy of a file whose mdat came before its moov, mdat moved towards
\* the end of the file, and the copy of one whose free atom was larger
\* than the one asked for, mdat moved towards the start
CopiedFromMdatFirst ==
  /\ pc = "rename"
  /\ videos[self].info.order = <<"ftyp", "free", "mdat", "moov">>
  /\ made_tmp.obj.info.kids["mdat"]._position > videos[self].info.kids["mdat"]._position
  /\ Len(chunks_of("tmp", made_tmp.obj).chunks) = 2

(***************************************************************************)
(* C15.  After a successful update_in_place_using_chunks the destination   *)
(* file is laid out without gaps or overlaps: the bytes before             *)
(* moov._position are unchanged, the rebuilt moov image starts at          *)
(* moov._position, it is immediately followed by a free atom of payload    *)
(* free_len >= 0 that ends exactly at the original mdat._position, the     *)
(* mdat atom at that position declares the size 8 + the sum of the chunks' *)
(* lengths, and the file ends there (it is truncated at the end of the     *)
(* last chunk).  The mdat position is the same before and after the call.  *)
(***************************************************************************)
\* the image of the rebuilt moov
moov_image == write_atom(bytes_before, moov)

\* the sum of chunk.length over the chunk list of the call
payload_length == Sum([ i \in 1..Len(chunks) |-> chunks[i].length ], 1)

\* the file out, opened as new, has moov, free and mdat where the call on
\* old put them
gapless(old, out, new, image, free) ==
  /\ read(out, 0, old.info.kids["moov"]._position)
       = read(bytes_before, 0, old.info.kids["moov"]._position)
  /\ read(out, old.info.kids["moov"]._position, Len(image)) = image
  /\ free >= 0
  /\ read(out, old.info.kids["moov"]._position + Len(image), 8 + free)
       = write32(8 + free) \o TypeCode["free"] \o Zeros(free)
  /\ old.info.kids["moov"]._position + Len(image) + 8 + free
       = old.info.kids["mdat"]._position
  /\ read(out, old.info.kids["mdat"]._position, 8)
       = write32(8 + payload_length) \o TypeCode["mdat"]
  /\ Len(out) = old.info.kids["mdat"]._position + 8 + payload_length
  /\ new.ok
  /\ new.obj.info.kids["moov"]._position = old.info.kids["moov"]._position
  /\ new.obj.info.kids["moov"].atomsize = Len(image)
  /\ new.obj.info.kids["free"]._position
       = new.obj.info.kids["moov"]._position + new.obj.info.kids["moov"].atomsize
  /\ new.obj.info.kids["free"].atomsize = 8 + free
  /\ new.obj.info.kids["mdat"]._position = old.info.kids["mdat"]._position
  /\ new.obj.info.kids["mdat"].atomsize = 8 + payload_length
  /\ SubSeq(new.obj.info.order, Len(new.obj.info.order) - 2, Len(new.obj.info.order))
       = <<"moov", "free", "mdat">>

InPlaceLayoutGapless ==
  Succeeded =>
    gapless(videos[self], bytes_after, MP4(bytes_after, "dst", FALSE), moov_image,
            free_len)

\* a call that dropped the destination's last chunk: the file became
\* shorter, the moov changed size and a free atom with a payload remained
ShortenedInPlace ==
  /\ Succeeded
  /\ Len(bytes_after) < Len(bytes_before)
  /\ Len(chunks) = 1
  /\ Len(moov_image) # videos[self].info.kids["moov"].atomsize
  /\ free_len > 0

(***************************************************************************)
(* C16.  Chunk-list round trip: after a successful                         *)
(* update_in_place_using_chunks(chunks), the chunk list derived again from *)
(* the rebuilt indexes (chunk_info's lookup in stsc, the cumulative        *)
(* first_sample, the slice of stsz, the filter of stss, the lookup in      *)
(* stsd, then the contiguity check of chunks()) has the same length, its   *)
(* chunk i has the sample_sizes, length, local keyframe offsets and sample *)
(* description of chunks[i] and the offset stco[i] of the rebuilt table,   *)
(* and the contiguity check passes.                                        *)
(***************************************************************************)
\* the list `again` that chunks() returns is the list `asked` of the call
round_trip(asked, again, offsets) ==
  /\ again.ok
  /\ Len(again.chunks) = Len(asked)
  /\ \A i \in 1..Len(asked) :
       /\ again.chunks[i].sample_sizes = asked[i].sample_sizes
       /\ again.chunks[i].length = asked[i].length
       /\ again.chunks[i].keyframes = asked[i].keyframes
       /\ again.chunks[i].sample_description = asked[i].sample_description
       /\ again.chunks[i].offset = offsets[i]
       /\ again.chunks[i].chunkno = i - 1

reopened(made) ==
  /\ made.ok
  /\ round_trip(chunks, chunks_of("dst", made.obj), rebuilt("stco").chunk_offsets)
  /\ tiles(made.obj, chunks_of("dst", made.obj).chunks)

ChunkListRoundTrip == Succeeded => reopened(MP4(bytes_after, "dst", FALSE))

\* the destination's first chunk followed by two different chunks of the
\* source, the last with a keyframe that is not its first sample
RoundTripOfMixedList ==
  /\ Succeeded
  /\ Len(chunks) = 3
  /\ chunks[1].video = self
  /\ chunks[2].video # self
  /\ chunks[3].video # self
  /\ chunks[2].sample_sizes # chunks[3].sample_sizes
  /\ \E k \in 1..Len(chunks[3].keyframes) : chunks[3].keyframes[k] > 0

(***************************************************************************)
(* C17.  update_in_place_using_chunks rejects every chunk list in which a  *)
(* chunk of the destination is not scheduled at the offset it already      *)
(* occupies (a list that drops the destination's first chunk, or puts a    *)
(* chunk of another file of a different length before a chunk of the       *)
(* destination), and when it rejects for this reason no byte of the        *)
(* destination has been modified: neither the mdat header nor a media byte *)
(* was overwritten and the file was not truncated.                         *)
(* The assert is made inside the copy loop: the mdat header is written     *)
(* before the loop, and the chunks of other files that precede the         *)
(* misplaced chunk are written before the assert is reached.               *)
(***************************************************************************)
\* a chunk of the destination is scheduled away from the offset it occupies
Misplaced ==
  \E i \in 1..Len(chunks) :
     chunks[i].video = self /\ chunks[i].offset # offset_expected(i)

\* the call has ended with the AssertionError of the copy loop
RejectedInCopyLoop ==
  /\ pc \in {"called", "failed"}
  /\ result.kind = "AssertionError"
  /\ result.why = "mdat"

MisplacedChunkRejectedUntouched ==
  /\ (Succeeded /\ HasOwnChunk) => ~Misplaced
  /\ RejectedInCopyLoop => (Misplaced /\ files = before)

====
